---- MODULE Spec2Model ----
(***************************************************************************)
(* A model of php-deno (src/src/lib.rs): the PHP <-> V8 value bridge       *)
(* (zval_from_jsvalue, js_value_from_zval), the op dispatcher              *)
(* (op_callback) with its per-isolate callbacks slot, the module loader    *)
(* shim, and the JsRuntime / MainWorker facades with the snapshot flags.   *)
(*                                                                         *)
(* One PHP process is modelled.  It holds at most one runtime object.  A   *)
(* facade call is one action: everything the call does inside the isolate  *)
(* (scripts, op dispatches, PHP callables, nested facade calls made by a   *)
(* PHP callable) is computed by the recursive operators below and the      *)
(* dispatches are recorded, in order, in the variable log.                 *)
(*                                                                         *)
(* A Rust panic inside the extension (an unwrap on None/Err, a RefCell     *)
(* double borrow, a tokio runtime started inside a runtime) ends the PHP   *)
(* process: crashed becomes TRUE and no further call is possible.          *)
(***************************************************************************)
EXTENDS Integers, Sequences, FiniteSets, TLC

VARIABLES
    extensions,      \* the PHP-side array of Extension objects (RuntimeOptions.extensions / WorkerOptions.extensions)
    v8object_class,  \* whether the PHP program defines a class named V8Object
    try_call_errs,   \* whether Zval::try_call of the linked ext-php-rs returns Err for a thrown PHP exception
    kind,            \* "none", "JsRuntime" or "MainWorker": the runtime object the PHP program holds
    will_snapshot,   \* JsRuntime.will_snapshot
    has_snapshotted, \* JsRuntime.has_snapshotted
    module_loader,   \* the PHP ModuleLoader object handed to the runtime, or NoLoader
    slot,            \* the isolate slot Rc<RefCell<HashMap<String, CloneableZval>>>, or NoSlot
    op_decls,        \* names of the OpDecl's carrying op_callback declared in the isolate
    main_module,     \* the module the embedded runtime recorded as main, or NoModule
    evaluated,       \* whether the main module's code has been evaluated
    js_runs,         \* how many sources (scripts, js_files, module bodies) the isolate has run
    log,             \* the op dispatches of the last facade call, in order
    last,            \* the last facade call and what it returned to PHP
    crashed,         \* a panic ended the process
    applied          \* the last application of one of the extension's functions on its own: its name, arguments and result

vars == << extensions, v8object_class, try_call_errs, kind, will_snapshot,
           has_snapshotted, module_loader, slot, op_decls, main_module,
           evaluated, js_runs, log, last, crashed, applied >>

\* Most sources the isolate may run before the model stops issuing scripts.
MaxRuns == 2

(***************************************************************************)
(* Values.  A JS value and a PHP value (zval) are records tagged by t.     *)
(* A number is hi * 2^32 + n, plus 1/2 when half is TRUE, with n in the     *)
(* range of i32: hi is 0 exactly for the numbers in that range.            *)
(***************************************************************************)
Int32Min == -2147483647 - 1
Int32Max == 2147483647

JsString(s) == [t |-> "string", s |-> s]
JsNull == [t |-> "null"]
JsUndefined == [t |-> "undefined"]
JsBoolean(b) == [t |-> "boolean", b |-> b]
JsNumber64(hi, n, half) == [t |-> "number", n |-> n, half |-> half, hi |-> hi]
JsNumber(n, half) == JsNumber64(0, n, half)
JsArray(elems) == [t |-> "array", elems |-> elems]
JsFunction == [t |-> "function"]
\* proto is "Object" for an object literal and "null" for Object.create(null)
JsObject(proto, props) == [t |-> "object", proto |-> proto, props |-> props]
JsSymbol == [t |-> "symbol"]
Prop(key, val) == [key |-> key, val |-> val]

ZString(s) == [t |-> "string", s |-> s]
ZLong64(hi, n) == [t |-> "long", n |-> n, hi |-> hi]
ZLong(n) == ZLong64(0, n)
ZDouble64(hi, n, half) == [t |-> "double", n |-> n, half |-> half, hi |-> hi]
ZDouble(n, half) == ZDouble64(0, n, half)
ZTrue == [t |-> "true"]
ZFalse == [t |-> "false"]
ZNull == [t |-> "null"]
ZUndef == [t |-> "undef"]
ZArray(entries) == [t |-> "array", entries |-> entries]
ZObject(class, props) == [t |-> "object", class |-> class, props |-> props]
\* the conversion panicked (an unwrap on None)
ZPanic == [t |-> "panic"]
\* a PHP reference (IS_REFERENCE) to the value named id, through which an
\* array can contain itself: $a[0] = &$a
ZReference(id) == [t |-> "reference", id |-> id]
KeyLong(i) == [k |-> "long", i |-> i]
KeyString(s) == [k |-> "string", s |-> s]
Entry(key, val) == [key |-> key, val |-> val]

\* i64/u64 Display, as used by key.to_string()
LongToString(i) == ToString(i)

\* is_int32() answering false for every number.
IsInt32_never(v) == FALSE

\* is_int32() answering true for every number without a fraction.
IsInt32_any_integer(v) == v.t = "number" /\ ~v.half

IsInt32(v) ==
    v.t = "number" /\ ~v.half /\ v.hi = 0 /\ v.n >= Int32Min /\ v.n <= Int32Max

\* The high word of 2^53: an f64 holds every integer up to 2^53 in magnitude,
\* and every second one from there to 2^54.
F64ExactHi == 2097152

\* zval.double() of a long: the i64 cast to f64, for magnitudes below 2^53 +
\* 2^31.  The cast is exact up to 2^53; above, an odd integer is rounded to
\* the neighbour that is a multiple of 4 (round half to even).
i64_as_f64(hi, n) ==
    LET m == IF n = Int32Min THEN 0 ELSE IF n < 0 THEN -n ELSE n
        up == (hi = F64ExactHi /\ n >= 0) \/ (hi = -F64ExactHi /\ n <= 0)
        sign == IF n < 0 THEN -1 ELSE 1
    IN  IF ~up \/ m % 2 = 0 THEN [hi |-> hi, n |-> n]
        ELSE IF m % 4 = 1 THEN [hi |-> hi, n |-> sign * (m - 1)]
        ELSE IF m = Int32Max
        THEN [hi |-> IF n > 0 THEN hi + 1 ELSE hi, n |-> Int32Min]
        ELSE [hi |-> hi, n |-> sign * (m + 1)]

\* A JS array or object is a heap object and a JS value holds a handle to it.
\* A value written as a tree owns its parts; JsRef(id) is a handle to the heap
\* object JsHeap[id], through which a structure can contain itself.
JsRef(id) == [t |-> "ref", id |-> id]
JsHeap ==
    [id \in {"self_object", "self_array", "deep_cycle"} |->
        CASE id = "self_object" -> JsObject("Object", << Prop("self", JsRef("self_object")) >>)
          [] id = "self_array" -> JsArray(<< JsNumber(1, FALSE), JsRef("self_array") >>)
          [] id = "deep_cycle" ->
                JsObject("Object", << Prop("list", JsArray(<< JsRef("deep_cycle") >>)) >>)]

\* Calls of zval_from_jsvalue the thread's stack holds before it overflows.
StackFrames == 6
\* the conversion overflowed the stack
ZOverflow == [t |-> "stack_overflow"]

\* Whether a conversion ended the process, and the first element of a
\* sequence of zvals that did.
Failed(z) == z.t \in {"panic", "stack_overflow"}
AnyPanic(zs) == \E i \in 1..Len(zs) : Failed(zs[i])
FirstFailure(zs) == zs[CHOOSE i \in 1..Len(zs) : Failed(zs[i]) /\ \A j \in 1..(i - 1) : ~Failed(zs[j])]
FailureWhy(z) ==
    IF z = ZOverflow THEN "stack overflow" ELSE "try_find(V8Object): unwrap on None"

\* zval_from_jsvalue called with frames - 1 calls of itself below it on the stack.
RECURSIVE zval_from_jsvalue_at(_, _, _)
zval_from_jsvalue_at(result, class_found, frames) ==
    IF frames > StackFrames THEN ZOverflow
    ELSE CASE result.t = "ref" -> zval_from_jsvalue_at(JsHeap[result.id], class_found, frames)
      [] result.t = "string" -> ZString(result.s)
      [] result.t \in {"null", "undefined"} -> ZNull
      [] result.t = "boolean" -> IF result.b THEN ZTrue ELSE ZFalse
      [] IsInt32(result) -> ZLong(result.n)
      [] result.t = "number" /\ ~IsInt32(result) ->
            ZDouble64(result.hi, result.n, result.half)
      [] result.t = "array" ->
            LET elems == [i \in 1..Len(result.elems) |->
                            zval_from_jsvalue_at(result.elems[i], class_found, frames + 1)]
            IN  IF AnyPanic(elems) THEN FirstFailure(elems)
                ELSE ZArray([i \in 1..Len(elems) |-> Entry(KeyLong(i - 1), elems[i])])
      [] result.t = "function" -> ZString("Function")
      [] result.t = "object" ->
            IF ~class_found THEN ZPanic
            ELSE LET vals == [i \in 1..Len(result.props) |->
                                zval_from_jsvalue_at(result.props[i].val, class_found,
                                                     frames + 1)]
                 IN  IF AnyPanic(vals) THEN FirstFailure(vals)
                     ELSE ZObject("V8Object",
                            [i \in 1..Len(vals) |-> Prop(result.props[i].key, vals[i])])
      [] OTHER -> ZString("")

zval_from_jsvalue(result, class_found) == zval_from_jsvalue_at(result, class_found, 1)

\* A test that finds no string key in any array.
has_string_keys_never(entries) == FALSE

\* A test that takes every array that is not a list (keys 0, 1, ... in
\* order) for one with string keys.
has_string_keys_unless_list(entries) ==
    \E i \in 1..Len(entries) : entries[i].key # [k |-> "long", i |-> i - 1]

\* has_string_keys after the loop over zend_array.iter(): whether some key
\* was an ArrayKey::String.
has_string_keys(entries) ==
    \E i \in 1..Len(entries) : entries[i].key.k = "string"

RECURSIVE js_value_from_zval(_)
js_value_from_zval(zval) ==
    CASE zval.t = "string" -> JsString(zval.s)
      [] zval.t = "long" ->
            LET d == i64_as_f64(zval.hi, zval.n) IN JsNumber64(d.hi, d.n, FALSE)
      [] zval.t = "double" -> JsNumber64(zval.hi, zval.n, zval.half)
      [] zval.t = "true" -> JsBoolean(TRUE)
      [] zval.t = "false" -> JsBoolean(FALSE)
      [] zval.t = "null" -> JsNull
      [] zval.t = "array" ->
            LET n == Len(zval.entries)
                keys == [i \in 1..n |->
                           IF zval.entries[i].key.k = "string"
                           THEN zval.entries[i].key.s
                           ELSE LongToString(zval.entries[i].key.i)]
                values == [i \in 1..n |-> js_value_from_zval(zval.entries[i].val)]
            IN  IF has_string_keys(zval.entries)
                THEN JsObject("null", [i \in 1..n |-> Prop(keys[i], values[i])])
                ELSE JsArray(values)
      [] OTHER -> JsNull

(***************************************************************************)
(* The PHP program's side: callables registered as ops, and JS sources.    *)
(* A callable is named by a string; CallableBody gives what the PHP        *)
(* function does with its arguments.  A JS source is named by a string;    *)
(* ScriptBody gives the op calls it makes, in order; the value of a script *)
(* is the value of its last call (undefined when it makes none).           *)
(***************************************************************************)
Callables == {"php_add", "php_identity", "php_raise", "php_keyed", "php_reenter"}

Call(op, args) == [op |-> op, args |-> args]
JsK12 == JsObject("Object", << Prop("k", JsArray(<< JsNumber(1, FALSE), JsNumber(2, FALSE) >>)) >>)

\* An accessor property: a getter whose body makes one op call and returns
\* its value.  JsGetK is { get k() { return core.ops.add(2, 3) } }.
JsGetter(call) == [t |-> "getter", call |-> call]
JsGetK == JsObject("Object",
              << Prop("k", JsGetter(Call("add", << JsNumber(2, FALSE), JsNumber(3, FALSE) >>))) >>)

Scripts == {"noop", "add23", "identity_obj", "echo_hi", "raise", "keyed",
            "reenter", "missing_op", "two_calls", "getter"}

ScriptBody(src) ==
    CASE src = "noop" -> << >>
      [] src = "add23" -> << Call("add", << JsNumber(2, FALSE), JsNumber(3, FALSE) >>) >>
      [] src = "identity_obj" -> << Call("identity", << JsK12 >>) >>
      [] src = "echo_hi" -> << Call("identity", << JsString("hi") >>) >>
      [] src = "raise" -> << Call("raise", << >>) >>
      [] src = "keyed" -> << Call("keyed", << >>) >>
      [] src = "reenter" -> << Call("reenter", << >>) >>
      [] src = "missing_op" -> << Call("nosuch", << JsNumber(1, FALSE) >>) >>
      [] src = "getter" -> << Call("identity", << JsGetK >>) >>
      [] src = "two_calls" -> << Call("identity", << JsNumber(2, TRUE), JsFunction >>),
                                 Call("add", << JsNumber(2, FALSE), JsNumber(3, FALSE) >>) >>

\* The source the callable php_reenter hands to execute_script on the same runtime.
NestedScript == "add23"

\* What PHP does when the callable runs: return a zval, throw, or call back
\* into the runtime (execute_script) and return what that returns.
CallableBody(callable, php_args) ==
    CASE callable = "php_add" ->
            IF Len(php_args) = 2 /\ php_args[1].t = "long" /\ php_args[2].t = "long"
            THEN [kind |-> "return", val |-> ZLong(php_args[1].n + php_args[2].n)]
            ELSE [kind |-> "raise", val |-> ZUndef]
      [] callable = "php_identity" ->
            IF Len(php_args) >= 1
            THEN [kind |-> "return", val |-> php_args[1]]
            ELSE [kind |-> "raise", val |-> ZUndef]
      [] callable = "php_keyed" ->
            [kind |-> "return",
             val |-> ZArray(<< Entry(KeyString("k"),
                         ZArray(<< Entry(KeyLong(0), ZLong(1)), Entry(KeyLong(1), ZLong(2)) >>)) >>)]
      [] callable = "php_reenter" -> [kind |-> "reenter", val |-> ZUndef]
      [] OTHER -> [kind |-> "raise", val |-> ZUndef]

\* The isolate without the callbacks slot, and with it.
NoSlot == [present |-> FALSE, callbacks |-> << >>]
SlotOf(callbacks) == [present |-> TRUE, callbacks |-> callbacks]

\* value.to_string(scope): None when ToString throws (a symbol, an object
\* without a prototype), else Some(string).
NoString == [some |-> FALSE, s |-> ""]
SomeString(s) == [some |-> TRUE, s |-> s]
JoinStrings(strs) ==
    LET F[i \in 0..Len(strs)] ==
            IF i = 0 THEN ""
            ELSE IF i = 1 THEN strs[1] ELSE F[i - 1] \o "," \o strs[i]
    IN  F[Len(strs)]

\* The numbers the scripts and loaders of the model give to_string are in the
\* i32 range (hi = 0).
RECURSIVE JsToString(_)
JsToString(v) ==
    CASE v.t = "string" -> SomeString(v.s)
      [] v.t = "null" -> SomeString("null")
      [] v.t = "undefined" -> SomeString("undefined")
      [] v.t = "boolean" -> SomeString(IF v.b THEN "true" ELSE "false")
      [] v.t = "number" ->
            SomeString(IF ~v.half THEN ToString(v.n)
                       ELSE IF v.n >= 0 THEN ToString(v.n) \o ".5"
                       ELSE "-" \o ToString(-v.n - 1) \o ".5")
      [] v.t = "array" ->
            LET parts == [i \in 1..Len(v.elems) |->
                            IF v.elems[i].t \in {"null", "undefined"} THEN SomeString("")
                            ELSE JsToString(v.elems[i])]
            IN  IF \E i \in 1..Len(parts) : ~parts[i].some THEN NoString
                ELSE SomeString(JoinStrings([i \in 1..Len(parts) |-> parts[i].s]))
      [] v.t = "function" -> SomeString("function")  \* stands for the function's source text
      [] v.t = "object" -> IF v.proto = "null" THEN NoString ELSE SomeString("[object Object]")
      [] OTHER -> NoString

(***************************************************************************)
(* Inside the isolate.  cx is the context a piece of JS runs in:           *)
(*   slot, decls  the isolate's callbacks slot and declared ops            *)
(*   borrowed     a RefMut of the callbacks map is alive on the stack      *)
(*   exec         the executor the thread is inside: "none", "tokio"       *)
(*                (Runtime::block_on) or "futures" (executor::block_on)    *)
(*   depth        how many op dispatches are on the stack                  *)
(*   snap         JsRuntime.has_snapshotted                                *)
(*   class_found  ClassEntry::try_find("V8Object") is Some                 *)
(*   errs         try_call returns Err for a thrown PHP exception          *)
(* Every operator returns what happened: out, the dispatches made (log),   *)
(* the sources run (runs), whether a PHP exception was left pending, and   *)
(* for a panic its message (why).                                          *)
(***************************************************************************)
\* The record of one op dispatch: the op and its JS arguments, the state it
\* found (depth, slot installed, map already borrowed, entry = the map holds the
\* name), how far op_callback got (found, invoked = how often the callable was
\* called, php_args, raised = the callable threw, ret) and how it ended: rv
\* and outcome, "returned" (rv set), "returned_unset" (returned without
\* setting rv) or "panic".
Event(cx, name, args) ==
    [op |-> name, args |-> args, depth |-> cx.depth, slot |-> cx.slot.present,
     borrowed |-> cx.borrowed,
     entry |-> cx.slot.present /\ name \in DOMAIN cx.slot.callbacks,
     found |-> FALSE, invoked |-> 0, php_args |-> << >>, raised |-> FALSE,
     ret |-> ZUndef, rv |-> JsUndefined, outcome |-> "panic"]

RECURSIVE op_callback(_, _, _)
RECURSIVE JsRuntime_execute_script(_, _)

Quiet == [out |-> "ok", val |-> JsUndefined, log |-> << >>, runs |-> 0,
          pending |-> FALSE, why |-> ""]

\* What a facade call that never reached the isolate returns.
Refused(status, err, why) ==
    [status |-> status, err |-> err, value |-> "", entered |-> FALSE,
     log |-> << >>, runs |-> 0, pending |-> FALSE, why |-> why]

\* The Result of try_call once the callable has run: body is what the PHP
\* function did, inner what the facade call it made (if any) returned.
try_call_result(cx, body, inner) ==
    LET thrown(lg, rn) ==
            IF cx.errs
            THEN [kind |-> "err", val |-> ZUndef, log |-> lg, runs |-> rn,
                  pending |-> FALSE, raised |-> TRUE, why |-> ""]
            ELSE [kind |-> "return", val |-> ZUndef, log |-> lg, runs |-> rn,
                  pending |-> TRUE, raised |-> TRUE, why |-> ""]
    IN  CASE body.kind = "return" ->
                [kind |-> "return", val |-> body.val, log |-> << >>, runs |-> 0,
                 pending |-> FALSE, raised |-> FALSE, why |-> ""]
          [] body.kind = "raise" -> thrown(<< >>, 0)
          [] body.kind = "reenter" /\ inner.status = "panic" ->
                [kind |-> "panic", val |-> ZUndef, log |-> inner.log,
                 runs |-> inner.runs, pending |-> FALSE, raised |-> FALSE,
                 why |-> inner.why]
          [] body.kind = "reenter" /\ inner.status = "err" ->
                thrown(inner.log, inner.runs)
          [] body.kind = "reenter" /\ inner.status = "ok" ->
                [kind |-> "return", val |-> ZString(inner.value), log |-> inner.log,
                 runs |-> inner.runs, pending |-> inner.pending, raised |-> FALSE,
                 why |-> ""]

\* callback.try_call(php_args_refs): the PHP callable runs; kind is "return"
\* (Ok(retval)), "err" (Err) or "panic" (a facade call it made panicked).
try_call(cx, callable, php_args) ==
    try_call_result(cx, CallableBody(callable, php_args),
                    IF CallableBody(callable, php_args).kind = "reenter"
                    THEN JsRuntime_execute_script(cx, NestedScript)
                    ELSE Refused("ok", "", ""))

\* The accessor properties of the objects among args, in the order
\* object.get reaches them while op_callback converts the arguments.
IsGetter(prop) == prop.val.t = "getter"
GettersOf(arg) == IF arg.t = "object" THEN SelectSeq(arg.props, IsGetter) ELSE << >>
RECURSIVE Getters(_)
Getters(args) ==
    IF args = << >> THEN << >> ELSE GettersOf(Head(args)) \o Getters(Tail(args))

\* args as zval_from_jsvalue sees them: each accessor property holds the
\* value object.get returned for it, vals in the order of Getters(args).
Gotten(args, vals) ==
    [i \in 1..Len(args) |->
        IF args[i].t # "object" THEN args[i]
        ELSE JsObject(args[i].proto,
                [j \in 1..Len(args[i].props) |->
                    IF IsGetter(args[i].props[j])
                    THEN Prop(args[i].props[j].key,
                              vals[Len(Getters(SubSeq(args, 1, i - 1)))
                                   + Len(SelectSeq(SubSeq(args[i].props, 1, j), IsGetter))])
                    ELSE args[i].props[j]])]

NoGetters == [out |-> "ok", vals |-> << >>, log |-> << >>, runs |-> 0,
              pending |-> FALSE, why |-> ""]

\* object.get(scope, key).unwrap() on an accessor property: the getter's op
\* call is dispatched (r) unless no OpDecl declares the name, when the getter
\* throws a TypeError, get returns None and the unwrap panics.
GetterGot(acc, declared, r) ==
    IF ~declared
    THEN [acc EXCEPT !.out = "panic", !.why = "object.get: unwrap on None"]
    ELSE [out |-> r.out, vals |-> Append(acc.vals, r.rv), log |-> acc.log \o r.log,
          runs |-> acc.runs + r.runs, pending |-> acc.pending \/ r.pending,
          why |-> r.why]

RECURSIVE RunGetters(_, _, _, _)
RunGetters(cx, getters, i, acc) ==
    IF i > Len(getters) \/ acc.out # "ok" THEN acc
    ELSE RunGetters(cx, getters, i + 1,
            GetterGot(acc, getters[i].val.call.op \in cx.decls,
                      IF getters[i].val.call.op \in cx.decls
                      THEN op_callback(cx, getters[i].val.call.op, getters[i].val.call.args)
                      ELSE NoGetters))

\* Whether op_callback gets as far as converting the arguments' properties.
ReachesGetters(cx, name, args) ==
    /\ cx.slot.present
    /\ ~cx.borrowed
    /\ name \in DOMAIN cx.slot.callbacks
    /\ cx.class_found
    /\ Getters(args) # << >>

PhpArgs(cx, args, got) ==
    LET js_args == IF Len(got.vals) = Len(Getters(args)) /\ cx.class_found
                   THEN Gotten(args, got.vals) ELSE args
    IN  [i \in 1..Len(args) |-> zval_from_jsvalue(js_args[i], cx.class_found)]

\* Whether op_callback gets as far as calling the PHP callable.
ReachesCallable(cx, name, args, got) ==
    /\ cx.slot.present
    /\ ~cx.borrowed
    /\ name \in DOMAIN cx.slot.callbacks
    /\ got.out = "ok"
    /\ ~AnyPanic(PhpArgs(cx, args, got))

\* op_callback from the slot lookup to rv.set; got is what the getters run
\* by the argument conversion did, res what try_call returned.
op_callback_body(cx, name, args, got, res) ==
    LET ev == Event(cx, name, args)
        evf == [ev EXCEPT !.found = TRUE]
        evc == [evf EXCEPT !.invoked = 1, !.php_args = PhpArgs(cx, args, got),
                           !.raised = res.raised]
        return_value_js == js_value_from_zval(res.val)
        panic(e, lg, rn, why) ==
            [out |-> "panic", rv |-> JsUndefined, log |-> << e >> \o lg,
             runs |-> rn, pending |-> FALSE, why |-> why]
    IN  IF ~cx.slot.present
        THEN panic(ev, << >>, 0, "get_slot: unwrap on None")
        ELSE IF cx.borrowed
        THEN panic(ev, << >>, 0, "already borrowed: BorrowMutError")
        ELSE IF name \notin DOMAIN cx.slot.callbacks
        THEN [out |-> "ok", rv |-> JsUndefined,
              log |-> << [ev EXCEPT !.outcome = "returned_unset"] >>,
              runs |-> 0, pending |-> FALSE, why |-> "callback not found"]
        ELSE IF got.out # "ok"
        THEN panic(evf, got.log, got.runs, got.why)
        ELSE IF AnyPanic(PhpArgs(cx, args, got))
        THEN panic(evf, got.log, got.runs, FailureWhy(FirstFailure(PhpArgs(cx, args, got))))
        ELSE CASE res.kind = "panic" -> panic(evc, got.log \o res.log, got.runs + res.runs, res.why)
               [] res.kind = "err" ->
                    panic(evc, got.log \o res.log, got.runs + res.runs,
                          "try_call: unwrap on Err")
               [] res.kind = "return" ->
                    [out |-> "ok", rv |-> return_value_js,
                     log |-> << [evc EXCEPT !.ret = res.val, !.rv = return_value_js,
                                            !.outcome = "returned"] >>
                             \o got.log \o res.log,
                     runs |-> got.runs + res.runs,
                     pending |-> got.pending \/ res.pending, why |-> ""]

\* op_callback once the arguments are converted (got): the callable is called.
op_callback_converted(cx, name, args, got) ==
    op_callback_body(cx, name, args, got,
        IF ReachesCallable(cx, name, args, got)
        THEN try_call([cx EXCEPT !.borrowed = TRUE, !.depth = cx.depth + 1],
                      cx.slot.callbacks[name], PhpArgs(cx, args, got))
        ELSE [kind |-> "none"])

\* The RefMut taken by callbacks_slot.borrow_mut() lives to the end of
\* op_callback, so the getters run by the argument conversion and the
\* callable all run with the map borrowed.
op_callback(cx, name, args) ==
    op_callback_converted(cx, name, args,
        IF ReachesGetters(cx, name, args)
        THEN RunGetters([cx EXCEPT !.borrowed = TRUE, !.depth = cx.depth + 1],
                        Getters(args), 1, NoGetters)
        ELSE NoGetters)

\* What happened so far (acc), followed by one more op call's outcome r.
AfterCall(acc, r) ==
    [out |-> r.out, val |-> r.rv, log |-> acc.log \o r.log, runs |-> acc.runs + r.runs,
     pending |-> acc.pending \/ r.pending, why |-> r.why]

\* One call of a source.  A call of a name no OpDecl declares is a JS
\* TypeError (core.ops.<name> is undefined) and ends the source.
Step(cx, step, acc) ==
    IF step.op \notin cx.decls
    THEN [acc EXCEPT !.out = "throw", !.val = JsUndefined,
                     !.why = "TypeError: not a function"]
    ELSE AfterCall(acc, op_callback(cx, step.op, step.args))

\* The isolate runs the calls steps[i..] of a source; acc is what happened so far.
RECURSIVE RunSteps(_, _, _, _)
RunSteps(cx, steps, i, acc) ==
    IF i > Len(steps) \/ acc.out # "ok" THEN acc
    ELSE RunSteps(cx, steps, i + 1, Step(cx, steps[i], acc))

Ran(r) == [r EXCEPT !.runs = r.runs + 1]
RunSource(cx, src) == Ran(RunSteps(cx, ScriptBody(src), 1, Quiet))

\* Ok(return_value) / Err(error) of execute_script turned into the PhpResult.
script_result(r) ==
    LET str == JsToString(r.val)
        ret(status, err, value, why) ==
            [status |-> status, err |-> err, value |-> value, entered |-> TRUE,
             log |-> r.log, runs |-> r.runs, pending |-> r.pending, why |-> why]
    IN  CASE r.out = "panic" -> ret("panic", "", "", r.why)
          [] r.out = "throw" -> ret("err", "JsException", "", r.why)
          [] r.out = "ok" /\ ~str.some -> ret("panic", "", "", "to_string: unwrap on None")
          [] r.out = "ok" /\ str.some -> ret("ok", "", str.s, "")

\* The body shared by JsRuntime::execute_script and MainWorker::execute_script:
\* a new tokio runtime, block_on, the script, the value's to_string.  Inside
\* an op dispatch the isolate's current scope is the callback's, and the
\* handle scope execute_script opens from the isolate panics.
execute_script_body(cx, src) ==
    IF cx.exec = "tokio"
    THEN Refused("panic", "", "Cannot start a runtime from within a runtime")
    ELSE IF cx.depth > 0
    THEN Refused("panic", "", "active scope can't be dropped")
    ELSE script_result(RunSource([cx EXCEPT !.exec = "tokio"], src))

\* execute_script without its has_snapshotted test.
JsRuntime_execute_script_unguarded(cx, src) == execute_script_body(cx, src)

JsRuntime_execute_script(cx, src) ==
    IF cx.snap
    THEN Refused("err", "Snapshotted", "")
    ELSE execute_script_body(cx, src)

MainWorker_execute_script(cx, src) == execute_script_body(cx, src)

(***************************************************************************)
(* The module loader shim.  A PHP loader object is named by a string;      *)
(* PhpResolve and PhpLoad give what its methods return (a zval) or that    *)
(* the call threw.                                                         *)
(***************************************************************************)
NoLoader == "none"
Loaders == {"good", "resolve_int", "resolve_relative", "load_null", "load_json"}

\* A parser that takes any string for a URL.
UrlParse_any(str) == [ok |-> TRUE, url |-> str]

\* url::Url::parse on the strings the model uses: the serialisation of the
\* parsed URL, or an error.
UrlParse(str) ==
    CASE str = "file:///foo.js" -> [ok |-> TRUE, url |-> "file:///foo.js"]
      [] str = "file:///a/../foo.js" -> [ok |-> TRUE, url |-> "file:///foo.js"]
      [] str = "FILE:///data.json" -> [ok |-> TRUE, url |-> "file:///data.json"]
      [] OTHER -> [ok |-> FALSE, url |-> ""]

Specifiers == {"file:///foo.js", "file:///a/../foo.js", "FILE:///data.json", "foo"}

ModuleSourceOf(code, module_type, url) ==
    [t |-> "ModuleSource", code |-> code, module_type |-> module_type,
     module_url_specified |-> url, module_url_found |-> url]

\* What try_call gives for a loader method that throws: Err, or Ok with an
\* undefined retval and the exception left pending.
PhpThrew == IF try_call_errs THEN [ok |-> FALSE, val |-> ZUndef]
            ELSE [ok |-> TRUE, val |-> ZUndef]

PhpResolve(loader, specifier, referrer, is_main) ==
    CASE loader = "resolve_int" -> [ok |-> TRUE, val |-> ZLong(42)]
      [] loader = "resolve_float" -> [ok |-> TRUE, val |-> ZDouble(2, TRUE)]
      [] loader = "resolve_null" -> [ok |-> TRUE, val |-> ZNull]
      [] loader = "resolve_array" ->
            [ok |-> TRUE, val |-> ZArray(<< Entry(KeyLong(0), ZString(specifier)) >>)]
      [] loader = "resolve_throws" -> PhpThrew
      [] loader = "resolve_relative" -> [ok |-> TRUE, val |-> ZString("foo")]
      [] OTHER -> [ok |-> TRUE, val |-> ZString(specifier)]

PhpLoad(loader, url) ==
    CASE loader = "load_null" -> [ok |-> TRUE, val |-> ZNull]
      [] loader = "load_string" -> [ok |-> TRUE, val |-> ZString("add23")]
      [] loader = "load_throws" -> PhpThrew
      [] loader = "load_json" -> [ok |-> TRUE, val |-> ModuleSourceOf("noop", "json", url)]
      [] loader = "load_JSON" -> [ok |-> TRUE, val |-> ModuleSourceOf("noop", "JSON", url)]
      [] loader = "load_no_type" -> [ok |-> TRUE, val |-> ModuleSourceOf("noop", "", url)]
      [] loader = "load_padded_json" ->
            [ok |-> TRUE, val |-> ModuleSourceOf("noop", " json", url)]
      [] loader = "load_redirect" ->
            [ok |-> TRUE,
             val |-> [ModuleSourceOf("add23", "module", url)
                        EXCEPT !.module_url_found = "file:///moved.js"]]
      [] OTHER -> [ok |-> TRUE, val |-> ModuleSourceOf("add23", "javascript", url)]

\* Zval::string(): the string, or the number's Display when the zval is a number.
ZvalString(zval) ==
    CASE zval.t = "string" -> SomeString(zval.s)
      [] zval.t \in {"long", "double"} -> JsToString(JsNumber(zval.n, zval.t = "double" /\ zval.half))
      [] OTHER -> NoString

ModuleLoader_resolve(loader, specifier, referrer, is_main) ==
    LET result == PhpResolve(loader, specifier, referrer, is_main)
        str == IF result.ok THEN ZvalString(result.val) ELSE NoString
        parsed == UrlParse(str.s)
    IN  IF ~result.ok \/ ~str.some
        THEN [ok |-> FALSE, url |-> "", err |-> "resolve() did not return a valid string."]
        ELSE IF ~parsed.ok
        THEN [ok |-> FALSE, url |-> "", err |-> "url parse error"]
        ELSE [ok |-> TRUE, url |-> parsed.url, err |-> ""]

NoSource == [code |-> "noop", module_type |-> "", module_url_specified |-> "",
             module_url_found |-> ""]

\* A comparison of the module type that ignores case and leading blanks.
ModuleType_lenient(module_type) ==
    IF module_type \in {"json", "JSON", " json"} THEN "Json" ELSE "JavaScript"

\* if source.module_type == "json" { ModuleType::Json } else { ModuleType::JavaScript }
ModuleType(module_type) ==
    IF module_type = "json" THEN "Json" ELSE "JavaScript"

\* load taking whatever the PHP load returned for a module.
ModuleLoader_load_unchecked(loader, module_specifier) ==
    [ready |-> TRUE, ok |-> TRUE, source |-> NoSource, err |-> ""]

\* The future ModuleLoader::load returns: always ready, Ok(source) or Err(err).
ModuleLoader_load(loader, module_specifier) ==
    LET result == PhpLoad(loader, module_specifier)
    IN  IF ~result.ok
        THEN [ready |-> TRUE, ok |-> FALSE, source |-> NoSource,
              err |-> "Error calling load() function on ModuleLoader"]
        ELSE IF result.val.t # "ModuleSource"
        THEN [ready |-> TRUE, ok |-> FALSE, source |-> NoSource,
              err |-> "Error converting return value of load() to ModuleSource"]
        ELSE [ready |-> TRUE, ok |-> TRUE,
              source |-> [code |-> result.val.code,
                          module_type |-> ModuleType(result.val.module_type),
                          module_url_specified |-> result.val.module_url_specified,
                          module_url_found |-> result.val.module_url_found],
              err |-> ""]

\* The main module of the isolate's module map: registered (loaded), and
\* instantiated once load_main_module got through.
NoModule == [loaded |-> FALSE, instantiated |-> FALSE, id |-> 0, url |-> "",
             code |-> "noop", module_type |-> ""]

\* deno_core's JsRuntime::load_main_module as the facade drives it: a given
\* code is registered as the main module; the root specifier is resolved
\* through the loader; the loader's load is asked only for a module that is
\* not registered yet; a second main module is an error.
deno_load_main_module(loader, main, specifier_url, code) ==
    LET module(url, src, type) ==
            [loaded |-> TRUE, instantiated |-> FALSE, id |-> 1, url |-> url,
             code |-> src, module_type |-> type]
        done(m, calls) ==
            [ok |-> TRUE, err |-> "", module |-> [m EXCEPT !.instantiated = TRUE],
             calls |-> calls]
        registered == IF code # "none" /\ ~main.loaded
                      THEN module(specifier_url, code, "JavaScript") ELSE main
        fail(err, calls) ==
            [ok |-> FALSE, module |-> registered, err |-> err, calls |-> calls]
        resolve_calls == IF loader = NoLoader THEN << >> ELSE << "resolve" >>
        resolved == IF loader = NoLoader
                    THEN [ok |-> FALSE, url |-> "", err |-> "Module loading is not supported"]
                    ELSE ModuleLoader_resolve(loader, specifier_url, ".", TRUE)
    IN  IF code # "none" /\ main.loaded THEN fail("main module already exists", << >>)
        ELSE IF ~resolved.ok THEN fail(resolved.err, resolve_calls)
        ELSE IF registered.loaded /\ registered.url = resolved.url
        THEN done(registered, resolve_calls)
        ELSE LET fut == ModuleLoader_load(loader, resolved.url)
             IN  IF ~fut.ok THEN fail(fut.err, << "resolve", "load" >>)
                 ELSE IF registered.loaded
                 THEN fail("main module already exists", << "resolve", "load" >>)
                 ELSE done(module(resolved.url, fut.source.code, fut.source.module_type),
                           << "resolve", "load" >>)

(***************************************************************************)
(* The PHP program: its Extension objects, and the facade calls it makes.  *)
(***************************************************************************)
Extension(js_files, ops) == [js_files |-> js_files, ops |-> ops]

StdOps == [n \in {"add", "identity", "raise", "keyed", "reenter"} |->
             CASE n = "add" -> "php_add"
               [] n = "identity" -> "php_identity"
               [] n = "raise" -> "php_raise"
               [] n = "keyed" -> "php_keyed"
               [] n = "reenter" -> "php_reenter"]

\* The arrays of extensions the PHP program may configure.
ExtensionArrays ==
    { << >>,
      << Extension(<< >>, StdOps) >>,
      << Extension(<< "noop" >>, StdOps) >>,
      << Extension(<< "echo_hi" >>, StdOps) >>,
      << Extension(<< >>, [n \in {"add", "identity"} |-> "php_identity"]),
         Extension(<< >>, [n \in {"add", "raise"} |->
                             IF n = "add" THEN "php_add" ELSE "php_raise"]) >> }

\* impl From<Extension> for deno_core::Extension, over the whole array: the
\* names of the OpDecl's, each carrying op_callback.
OpDecls(exts) == UNION { DOMAIN exts[i].ops : i \in 1..Len(exts) }

\* The js_files of all extensions, in the order the embedded runtime runs them.
RECURSIVE JsFiles(_)
JsFiles(exts) ==
    IF exts = << >> THEN << >> ELSE Head(exts).js_files \o JsFiles(Tail(exts))

\* A map built by keeping the first callable inserted under a name.
RECURSIVE Callbacks_first_kept(_, _)
Callbacks_first_kept(exts, acc) ==
    IF exts = << >> THEN acc
    ELSE LET ops == Head(exts).ops
         IN  Callbacks_first_kept(Tail(exts),
                       [n \in (DOMAIN acc) \cup (DOMAIN ops) |->
                          IF n \in DOMAIN acc THEN acc[n] ELSE ops[n]])

\* The loop of JsRuntime::__construct: callbacks.insert for every op of
\* every extension, in order.
RECURSIVE Callbacks(_, _)
Callbacks(exts, acc) ==
    IF exts = << >> THEN acc
    ELSE LET ops == Head(exts).ops
         IN  Callbacks(Tail(exts),
                       [n \in (DOMAIN acc) \cup (DOMAIN ops) |->
                          IF n \in DOMAIN ops THEN ops[n] ELSE acc[n]])

\* The embedded runtime runs the extensions' js_files while it is constructed.
AfterSource(acc, r) ==
    [out |-> r.out, val |-> r.val, log |-> acc.log \o r.log, runs |-> acc.runs + r.runs,
     pending |-> acc.pending \/ r.pending, why |-> r.why]

RECURSIVE RunSources(_, _, _)
RunSources(cx, srcs, acc) ==
    IF srcs = << >> \/ acc.out # "ok" THEN acc
    ELSE RunSources(cx, Tail(srcs), AfterSource(acc, RunSource(cx, Head(srcs))))

Cx(the_slot, decls, exec) ==
    [slot |-> the_slot, decls |-> decls, borrowed |-> FALSE, exec |-> exec,
     depth |-> 0, snap |-> has_snapshotted, class_found |-> v8object_class,
     errs |-> try_call_errs]

\* What a facade call returned to PHP: status "ok" (Ok), "err" (Err, a PHP
\* exception) or "panic"; entered = the call reached the embedded runtime;
\* ran = the sources the isolate ran for it; pending = a PHP exception thrown
\* by a callable is still pending; snap = has_snapshotted when it was called.
\* arg = the specifier load_main_module was given; loader_calls = the methods
\* of the PHP loader it called, in order; awaited = what the two things
\* mod_evaluate awaits came to.
NotAwaited == [evaluation_failed |-> FALSE, loop_failed |-> FALSE]
Returned(call, status, err, value, entered, ran, pending) ==
    [call |-> call, status |-> status, err |-> err, value |-> value,
     entered |-> entered, ran |-> ran, pending |-> pending, snap |-> has_snapshotted,
     arg |-> "", loader_calls |-> << >>, awaited |-> NotAwaited]

\* No function has been applied on its own.
NoApplication == [fn |-> "none"]

NoCall == [call |-> "none", status |-> "ok", err |-> "", value |-> "",
           entered |-> FALSE, ran |-> 0, pending |-> FALSE, snap |-> FALSE,
           arg |-> "", loader_calls |-> << >>, awaited |-> NotAwaited]

Init ==
    /\ extensions \in ExtensionArrays
    /\ v8object_class \in BOOLEAN
    /\ try_call_errs \in BOOLEAN
    /\ kind = "none"
    /\ will_snapshot = FALSE
    /\ has_snapshotted = FALSE
    /\ module_loader = NoLoader
    /\ slot = NoSlot
    /\ op_decls = {}
    /\ main_module = NoModule
    /\ evaluated = FALSE
    /\ js_runs = 0
    /\ log = << >>
    /\ last = NoCall
    /\ crashed = FALSE
    /\ applied = NoApplication

\* new JsRuntime($options)
JsRuntime_construct(options_will_snapshot, options_module_loader) ==
    /\ kind = "none" /\ ~crashed
    /\ LET decls == OpDecls(extensions)
           boot == RunSources(Cx(NoSlot, decls, "none"), JsFiles(extensions), Quiet)
           callbacks == Callbacks(extensions, << >>)
       IN  /\ log' = boot.log
           /\ js_runs' = js_runs + boot.runs
           /\ IF boot.out # "ok"
              THEN /\ crashed' = TRUE
                   /\ last' = Returned("JsRuntime::__construct", "panic", "", boot.why,
                                       TRUE, boot.runs, FALSE)
                   /\ UNCHANGED << kind, will_snapshot, module_loader, slot, op_decls >>
              ELSE /\ kind' = "JsRuntime"
                   /\ op_decls' = decls
                   /\ slot' = SlotOf(callbacks)
                   /\ will_snapshot' = options_will_snapshot
                   /\ module_loader' = options_module_loader
                   /\ last' = Returned("JsRuntime::__construct", "ok", "", "", TRUE,
                                       boot.runs, boot.pending)
                   /\ UNCHANGED crashed
    /\ UNCHANGED << applied, extensions, v8object_class, try_call_errs, has_snapshotted,
                    main_module, evaluated >>

\* $runtime->execute_script($name, $source_code)
JsRuntime_execute_script_call(src) ==
    /\ kind = "JsRuntime" /\ ~crashed /\ js_runs < MaxRuns
    /\ LET r == JsRuntime_execute_script(Cx(slot, op_decls, "none"), src)
       IN  /\ log' = r.log
           /\ js_runs' = js_runs + r.runs
           /\ crashed' = (r.status = "panic")
           /\ last' = Returned("execute_script", r.status, r.err,
                               IF r.status = "panic" THEN r.why ELSE r.value,
                               r.entered, r.runs, r.pending)
    /\ UNCHANGED << applied, extensions, v8object_class, try_call_errs, kind, will_snapshot,
                    has_snapshotted, module_loader, slot, op_decls, main_module,
                    evaluated >>

\* $runtime->load_main_module($specifier, $code)
JsRuntime_load_main_module(specifier, code) ==
    /\ kind = "JsRuntime" /\ ~crashed
    /\ LET parsed == UrlParse(specifier)
           r == deno_load_main_module(module_loader, main_module, parsed.url, code)
       IN  IF ~parsed.ok
           THEN /\ last' = [Returned("load_main_module", "err", "BadSpecifier", "",
                                     FALSE, 0, FALSE) EXCEPT !.arg = specifier]
                /\ UNCHANGED main_module
           ELSE /\ main_module' = r.module
                /\ last' = [(IF r.ok
                             THEN Returned("load_main_module", "ok", "", "module", TRUE, 0, FALSE)
                             ELSE Returned("load_main_module", "err", "LoaderError", r.err,
                                           TRUE, 0, FALSE))
                              EXCEPT !.arg = specifier, !.loader_calls = r.calls]
    /\ log' = << >>
    /\ UNCHANGED << applied, extensions, v8object_class, try_call_errs, kind, will_snapshot,
                    has_snapshotted, module_loader, slot, op_decls, evaluated,
                    js_runs, crashed >>

\* mod_evaluate that looks at the event loop's result only.
mod_evaluate_result_loop_only(loop_failed, evaluation_failed) ==
    IF loop_failed THEN [status |-> "err", err |-> "event loop"]
    ELSE [status |-> "ok", err |-> ""]

\* What mod_evaluate returns: the event loop's error when block_on of the
\* loop gave Err, else the evaluation's error when its receiver gave Err.
mod_evaluate_result(loop_failed, evaluation_failed) ==
    IF loop_failed THEN [status |-> "err", err |-> "event loop"]
    ELSE IF evaluation_failed THEN [status |-> "err", err |-> "evaluation"]
    ELSE [status |-> "ok", err |-> ""]

\* $runtime->mod_evaluate($id).  eval_fails and loop_fails are what the embedded
\* runtime reports for the module's evaluation and for the event loop;
\* embedded_ok is whether the embedded runtime, entered after snapshot(), goes on.
JsRuntime_mod_evaluate(id, eval_fails, loop_fails, embedded_ok) ==
    /\ kind = "JsRuntime" /\ ~crashed /\ js_runs < MaxRuns
    /\ has_snapshotted \/ embedded_ok
    /\ LET known == main_module.instantiated /\ id = main_module.id
           body == IF known /\ ~evaluated /\ main_module.module_type = "JavaScript"
                   THEN RunSource(Cx(slot, op_decls, "none"), main_module.code)
                   ELSE Quiet
           eval_err == body.out = "throw" \/ eval_fails
       IN  IF ~known \/ ~embedded_ok
           THEN /\ crashed' = TRUE
                /\ last' = Returned("mod_evaluate", "panic", "", "embedded runtime", TRUE, 0, FALSE)
                /\ log' = << >>
                /\ UNCHANGED << evaluated, js_runs >>
           ELSE /\ log' = body.log
                /\ js_runs' = js_runs + body.runs
                /\ crashed' = (body.out = "panic")
                /\ evaluated' = (evaluated \/ body.out # "panic")
                /\ last' =
                     IF body.out = "panic"
                     THEN Returned("mod_evaluate", "panic", "", body.why, TRUE, body.runs, FALSE)
                     ELSE [Returned("mod_evaluate",
                                    mod_evaluate_result(loop_fails, eval_err).status,
                                    mod_evaluate_result(loop_fails, eval_err).err,
                                    "", TRUE, body.runs, body.pending)
                             EXCEPT !.awaited = [evaluation_failed |-> eval_err,
                                                 loop_failed |-> loop_fails]]
    /\ UNCHANGED << applied, extensions, v8object_class, try_call_errs, kind, will_snapshot,
                    has_snapshotted, module_loader, slot, op_decls, main_module >>

\* $runtime->run_event_loop()
JsRuntime_run_event_loop(loop_fails, embedded_ok) ==
    /\ kind = "JsRuntime" /\ ~crashed
    /\ has_snapshotted \/ embedded_ok
    /\ crashed' = ~embedded_ok
    /\ last' = CASE ~embedded_ok ->
                      Returned("run_event_loop", "panic", "", "embedded runtime", TRUE, 0, FALSE)
                 [] embedded_ok /\ loop_fails ->
                      Returned("run_event_loop", "err", "event loop", "", TRUE, 0, FALSE)
                 [] OTHER -> Returned("run_event_loop", "ok", "", "", TRUE, 0, FALSE)
    /\ log' = << >>
    /\ UNCHANGED << applied, extensions, v8object_class, try_call_errs, kind, will_snapshot,
                    has_snapshotted, module_loader, slot, op_decls, main_module,
                    evaluated, js_runs >>

\* snapshot() without its will_snapshot test.
JsRuntime_snapshot_unchecked(embedded_ok) ==
    /\ kind = "JsRuntime" /\ ~crashed
    /\ has_snapshotted \/ embedded_ok
    /\ IF ~embedded_ok
       THEN /\ last' = Returned("snapshot", "panic", "", "embedded runtime", TRUE, 0, FALSE)
            /\ crashed' = TRUE
            /\ UNCHANGED has_snapshotted
       ELSE /\ last' = Returned("snapshot", "ok", "", "snapshot bytes", TRUE, 0, FALSE)
            /\ has_snapshotted' = TRUE
            /\ UNCHANGED crashed
    /\ log' = << >>
    /\ UNCHANGED << applied, extensions, v8object_class, try_call_errs, kind, will_snapshot,
                    module_loader, slot, op_decls, main_module, evaluated, js_runs >>

\* snapshot() marking the runtime as snapshotted before its will_snapshot test.
JsRuntime_snapshot_marks_first(embedded_ok) ==
    /\ kind = "JsRuntime" /\ ~crashed
    /\ (will_snapshot /\ has_snapshotted) \/ embedded_ok
    /\ has_snapshotted' = TRUE
    /\ IF will_snapshot = FALSE
       THEN /\ last' = Returned("snapshot", "err", "NoSnapshotFlag", "", FALSE, 0, FALSE)
            /\ UNCHANGED crashed
       ELSE IF ~embedded_ok
       THEN /\ last' = Returned("snapshot", "panic", "", "embedded runtime", TRUE, 0, FALSE)
            /\ crashed' = TRUE
       ELSE /\ last' = Returned("snapshot", "ok", "", "snapshot bytes", TRUE, 0, FALSE)
            /\ UNCHANGED crashed
    /\ log' = << >>
    /\ UNCHANGED << applied, extensions, v8object_class, try_call_errs, kind, will_snapshot,
                    module_loader, slot, op_decls, main_module, evaluated, js_runs >>

\* $runtime->snapshot().  A second snapshot of the same isolate is outside the
\* embedded runtime's contract: embedded_ok is whether it survives it.
JsRuntime_snapshot(embedded_ok) ==
    /\ kind = "JsRuntime" /\ ~crashed
    /\ (will_snapshot /\ has_snapshotted) \/ embedded_ok
    /\ IF will_snapshot = FALSE
       THEN /\ last' = Returned("snapshot", "err", "NoSnapshotFlag", "", FALSE, 0, FALSE)
            /\ UNCHANGED << has_snapshotted, crashed >>
       ELSE IF ~embedded_ok
       THEN /\ last' = Returned("snapshot", "panic", "", "embedded runtime", TRUE, 0, FALSE)
            /\ crashed' = TRUE
            /\ UNCHANGED has_snapshotted
       ELSE /\ last' = Returned("snapshot", "ok", "", "snapshot bytes", TRUE, 0, FALSE)
            /\ has_snapshotted' = TRUE
            /\ UNCHANGED crashed
    /\ log' = << >>
    /\ UNCHANGED << applied, extensions, v8object_class, try_call_errs, kind, will_snapshot,
                    module_loader, slot, op_decls, main_module, evaluated, js_runs >>

\* new MainWorker($main_module, $permissions, $options)
MainWorker_construct(permissions_ok, options_module_loader) ==
    /\ kind = "none" /\ ~crashed
    /\ LET decls == OpDecls(extensions)
           boot == IF permissions_ok
                   THEN RunSources(Cx(NoSlot, decls, "none"), JsFiles(extensions), Quiet)
                   ELSE Quiet
       IN  /\ log' = boot.log
           /\ js_runs' = js_runs + boot.runs
           /\ IF ~permissions_ok
              THEN /\ last' = Returned("MainWorker::__construct", "err",
                                       "Unable to parse permissions.", "", FALSE, 0, FALSE)
                   /\ UNCHANGED << kind, module_loader, op_decls, crashed >>
              ELSE IF boot.out # "ok"
              THEN /\ crashed' = TRUE
                   /\ last' = Returned("MainWorker::__construct", "panic", "", boot.why,
                                       TRUE, boot.runs, FALSE)
                   /\ UNCHANGED << kind, module_loader, op_decls >>
              ELSE /\ kind' = "MainWorker"
                   /\ op_decls' = decls
                   /\ module_loader' = options_module_loader
                   /\ last' = Returned("MainWorker::__construct", "ok", "", "", TRUE,
                                       boot.runs, boot.pending)
                   /\ UNCHANGED crashed
    /\ UNCHANGED << applied, extensions, v8object_class, try_call_errs, will_snapshot,
                    has_snapshotted, slot, main_module, evaluated >>

\* $worker->execute_script($name, $source_code)
MainWorker_execute_script_call(src) ==
    /\ kind = "MainWorker" /\ ~crashed /\ js_runs < MaxRuns
    /\ LET r == MainWorker_execute_script(Cx(slot, op_decls, "none"), src)
       IN  /\ log' = r.log
           /\ js_runs' = js_runs + r.runs
           /\ crashed' = (r.status = "panic")
           /\ last' = Returned("execute_script", r.status, r.err,
                               IF r.status = "panic" THEN r.why ELSE r.value,
                               r.entered, r.runs, r.pending)
    /\ UNCHANGED << applied, extensions, v8object_class, try_call_errs, kind, will_snapshot,
                    has_snapshotted, module_loader, slot, op_decls, main_module,
                    evaluated >>

\* What the PHP program makes of its Extension objects after the runtime is
\* constructed: op add replaced, op extra added, the other ops removed, a
\* js_file added.
MutatedExtensions ==
    << Extension(<< "echo_hi" >>, [n \in {"add", "extra"} |-> "php_identity"]) >>

\* A property write that also rebuilt the runtime's callbacks and OpDecls.
Extension_set_live(exts) ==
    /\ kind # "none" /\ ~crashed /\ extensions # exts
    /\ extensions' = exts
    /\ slot' = SlotOf(Callbacks(exts, << >>))
    /\ op_decls' = OpDecls(exts)
    /\ last' = Returned("Extension::set", "ok", "", "", FALSE, 0, FALSE)
    /\ log' = << >>
    /\ UNCHANGED << applied, v8object_class, try_call_errs, kind, will_snapshot,
                    has_snapshotted, module_loader, main_module, evaluated, js_runs,
                    crashed >>

\* $extension->ops = [...]; $extension->js_files = [...]: the property
\* setters assign the fields of the PHP program's Extension objects.  The
\* runtime was built from clones of them.
Extension_set(exts) ==
    /\ kind # "none" /\ ~crashed /\ extensions # exts
    /\ extensions' = exts
    /\ last' = Returned("Extension::set", "ok", "", "", FALSE, 0, FALSE)
    /\ log' = << >>
    /\ UNCHANGED << applied, v8object_class, try_call_errs, kind, will_snapshot,
                    has_snapshotted, module_loader, slot, op_decls, main_module,
                    evaluated, js_runs, crashed >>

\* $worker->execute_main_module(): the worker loads and evaluates the file
\* main_module names; the files the model uses call no op.
MainWorker_execute_main_module(module_fails) ==
    /\ kind = "MainWorker" /\ ~crashed
    /\ last' = IF module_fails
               THEN Returned("execute_main_module", "err", "module", "", TRUE, 0, FALSE)
               ELSE Returned("execute_main_module", "ok", "", "", TRUE, 0, FALSE)
    /\ log' = << >>
    /\ UNCHANGED << applied, extensions, v8object_class, try_call_errs, kind, will_snapshot,
                    has_snapshotted, module_loader, slot, op_decls, main_module,
                    evaluated, js_runs, crashed >>

\* $worker->run_event_loop()
MainWorker_run_event_loop(loop_fails) ==
    /\ kind = "MainWorker" /\ ~crashed
    /\ last' = IF loop_fails
               THEN Returned("run_event_loop", "err", "event loop", "", TRUE, 0, FALSE)
               ELSE Returned("run_event_loop", "ok", "", "", TRUE, 0, FALSE)
    /\ log' = << >>
    /\ UNCHANGED << applied, extensions, v8object_class, try_call_errs, kind, will_snapshot,
                    has_snapshotted, module_loader, slot, op_decls, main_module,
                    evaluated, js_runs, crashed >>

\* The RuntimeOptions the PHP program may hand to new JsRuntime:
\* << will_snapshot, module_loader >>.
RuntimeOptions ==
    ({FALSE} \X (Loaders \cup {NoLoader})) \cup ({TRUE} \X {NoLoader, "good"})

Next ==
    \/ \E options \in RuntimeOptions : JsRuntime_construct(options[1], options[2])
    \/ \E src \in Scripts : JsRuntime_execute_script_call(src)
    \/ \E sp \in Specifiers, code \in {"none", "raise", "reenter"} :
            JsRuntime_load_main_module(sp, code)
    \/ \E id \in 1..2, ef \in BOOLEAN, lf \in BOOLEAN, eo \in BOOLEAN :
            JsRuntime_mod_evaluate(id, ef, lf, eo)
    \/ \E lf \in BOOLEAN, eo \in BOOLEAN : JsRuntime_run_event_loop(lf, eo)
    \/ \E eo \in BOOLEAN : JsRuntime_snapshot(eo)
    \/ \E pk \in BOOLEAN, ml \in Loaders : MainWorker_construct(pk, ml)
    \/ \E src \in Scripts : MainWorker_execute_script_call(src)
    \/ \E mf \in BOOLEAN : MainWorker_execute_main_module(mf)
    \/ \E exts \in {MutatedExtensions} : Extension_set(exts)
    \/ \E lf \in BOOLEAN : MainWorker_run_event_loop(lf)

Spec == Init /\ [][Next]_vars

(***************************************************************************)
(* The extension's functions on their own.  FunctionSpec applies one       *)
(* function per step to arguments drawn from the sets below and records    *)
(* the application in the variable applied; no runtime object exists.      *)
(***************************************************************************)
\* PHP scalars.
ZScalars ==
    {ZNull, ZTrue, ZFalse, ZLong(0), ZLong(1), ZLong(-1), ZDouble(2, TRUE),
     ZString(""), ZString("héllo")}

\* Keys and values of the PHP arrays applied, and the arrays: up to two
\* entries with distinct keys, in either order.
ZKeys == {KeyLong(0), KeyLong(1), KeyLong(5), KeyLong(9), KeyLong(-1), KeyString("k")}
ZElems == {ZLong(1), ZString("a"), ZNull,
           ZArray(<< Entry(KeyLong(0), ZLong(1)), Entry(KeyLong(1), ZLong(2)) >>)}
ZArrays ==
    {ZArray(<< >>)}
    \cup {ZArray(<< Entry(k, v) >>) : k \in ZKeys, v \in ZElems}
    \cup {ZArray(<< Entry(e[1], e[2]), Entry(e[3], e[4]) >>) :
            e \in {f \in ZKeys \X ZElems \X ZKeys \X ZElems : f[1] # f[3]}}

\* PHP integers (i64) at and around the ends of the i32 range and around
\* 2^53: -2^31, 2^31 - 1, -2^31 - 1, 2^31, 2^32, 2^53 - 1, 2^53 + 1, 2^53 + 3,
\* 2^53 + 2^31 - 1, -(2^53 + 5).
ZLongs ==
    {ZLong(Int32Min), ZLong(Int32Max), ZLong64(-1, Int32Max), ZLong64(1, Int32Min),
     ZLong64(1, 0), ZLong64(F64ExactHi, -1), ZLong64(F64ExactHi, 1),
     ZLong64(F64ExactHi, 3), ZLong64(F64ExactHi, Int32Max), ZLong64(-F64ExactHi, -5)}

\* PHP values: scalars, arrays, an array holding a reference to itself, an
\* object, a double with an integral value and an uninitialised zval.
ZValues ==
    ZScalars \cup ZArrays
    \cup ZLongs
    \cup {ZDouble(2, FALSE), ZDouble64(1, Int32Min, FALSE), ZUndef,
          ZObject("V8Object", << Prop("k", ZLong(1)) >>),
          ZArray(<< Entry(KeyLong(0), ZLong(1)), Entry(KeyLong(1), ZReference("a")) >>)}

JsScalars ==
    {JsString(""), JsString("héllo"), JsString("Function"), JsNull, JsUndefined,
     JsBoolean(TRUE), JsBoolean(FALSE), JsNumber(0, FALSE), JsNumber(1, FALSE),
     JsNumber(-1, FALSE), JsNumber(2, TRUE), JsNumber(Int32Max, FALSE),
     JsNumber(Int32Max, TRUE), JsNumber(Int32Min, FALSE), JsNumber64(1, Int32Min, FALSE),
     JsNumber64(-1, Int32Max, FALSE), JsFunction, JsSymbol}

\* Elements and property values of the JS arrays and objects applied.
JsElems == {JsNumber(1, FALSE), JsString("a"), JsUndefined, JsFunction,
            JsArray(<< JsNumber(1, FALSE), JsNumber(2, FALSE) >>),
            JsObject("Object", << Prop("j", JsBoolean(TRUE)) >>)}
JsArrays ==
    {JsArray(<< >>)}
    \cup {JsArray(<< v >>) : v \in JsElems}
    \cup {JsArray(<< v, w >>) : v \in JsElems, w \in JsElems}
JsObjects ==
    {JsObject("Object", << >>)}
    \cup {JsObject(proto, << Prop("k", v) >>) : proto \in {"Object", "null"}, v \in JsElems}
    \cup {JsObject("Object", << Prop("k", v), Prop("j", w) >>) : v \in JsElems, w \in JsElems}

\* JS values: scalars, arrays, objects, and handles to structures that
\* contain themselves.
JsValues ==
    JsScalars \cup JsArrays \cup JsObjects \cup {JsRef(id) : id \in DOMAIN JsHeap}

\* The functions below read no state of the runtime; a behaviour of
\* FunctionSpec is one application of one of them to one input.
FunctionInit ==
    /\ Init
    /\ extensions = << >>

\* The PHP loader objects applied: those of the runtime's options and ones
\* whose methods return other things or throw.
ShimLoaders ==
    Loaders \cup {"resolve_float", "resolve_null", "resolve_array", "resolve_throws",
                  "load_string", "load_throws", "load_JSON", "load_no_type",
                  "load_padded_json", "load_redirect"}
Referrers == {".", "file:///a"}
\* The ModuleSpecifier values load is given: parsed URLs.
ModuleSpecifiers == {UrlParse(sp).url : sp \in {str \in Specifiers : UrlParse(str).ok}}

\* zval_from_jsvalue(result, scope)
Apply_zval_from_jsvalue(result) ==
    /\ applied = NoApplication
    /\ applied' = [fn |-> "zval_from_jsvalue", arg |-> result,
                   out |-> zval_from_jsvalue(result, v8object_class)]
    /\ UNCHANGED << extensions, v8object_class, try_call_errs, kind, will_snapshot,
                    has_snapshotted, module_loader, slot, op_decls, main_module,
                    evaluated, js_runs, log, last, crashed >>

\* js_value_from_zval(scope, zval)
Apply_js_value_from_zval(zval) ==
    /\ applied = NoApplication
    /\ applied' = [fn |-> "js_value_from_zval", arg |-> zval,
                   out |-> js_value_from_zval(zval)]
    /\ UNCHANGED << extensions, v8object_class, try_call_errs, kind, will_snapshot,
                    has_snapshotted, module_loader, slot, op_decls, main_module,
                    evaluated, js_runs, log, last, crashed >>

\* zval_from_jsvalue(js_value_from_zval(scope, zval), scope): a PHP value
\* handed to JS and back, as when JS passes an op's result to another op.
Apply_round_trip(zval) ==
    /\ applied = NoApplication
    /\ applied' = [fn |-> "round_trip", arg |-> zval,
                   js |-> js_value_from_zval(zval),
                   out |-> zval_from_jsvalue(js_value_from_zval(zval), v8object_class)]
    /\ UNCHANGED << extensions, v8object_class, try_call_errs, kind, will_snapshot,
                    has_snapshotted, module_loader, slot, op_decls, main_module,
                    evaluated, js_runs, log, last, crashed >>

\* ModuleLoader::resolve(specifier, referrer, is_main); php is what the PHP
\* loader's resolve was called with and res what the call gave.
Apply_ModuleLoader_resolve(loader, specifier, referrer, is_main) ==
    /\ applied = NoApplication
    /\ applied' = [fn |-> "ModuleLoader::resolve", loader |-> loader,
                   arg |-> << specifier, referrer, is_main >>,
                   php |-> << specifier, referrer, is_main >>,
                   res |-> PhpResolve(loader, specifier, referrer, is_main),
                   out |-> ModuleLoader_resolve(loader, specifier, referrer, is_main)]
    /\ UNCHANGED << extensions, v8object_class, try_call_errs, kind, will_snapshot,
                    has_snapshotted, module_loader, slot, op_decls, main_module,
                    evaluated, js_runs, log, last, crashed >>

\* ModuleLoader::load(module_specifier, maybe_referrer, is_dyn_import)
Apply_ModuleLoader_load(loader, module_specifier) ==
    /\ applied = NoApplication
    /\ applied' = [fn |-> "ModuleLoader::load", loader |-> loader,
                   arg |-> module_specifier,
                   res |-> PhpLoad(loader, module_specifier),
                   out |-> ModuleLoader_load(loader, module_specifier)]
    /\ UNCHANGED << extensions, v8object_class, try_call_errs, kind, will_snapshot,
                    has_snapshotted, module_loader, slot, op_decls, main_module,
                    evaluated, js_runs, log, last, crashed >>

\* deno_core::error::JsFrame: file_name: Option<String>, line_number:
\* Option<i64>; JsError: message: Option<String>, frames: Vec<JsFrame>.
NoLine == [some |-> FALSE, n |-> 0]
SomeLine(n) == [some |-> TRUE, n |-> n]
JsFrame(file_name, line_number) == [file_name |-> file_name, line_number |-> line_number]
JsError(message, frames) == [message |-> message, frames |-> frames]

\* The PHP class Deno\Core\JsException
JsException(message, code, file, line, trace) ==
    [message |-> message, code |-> code, file |-> file, line |-> line, trace |-> trace]

\* A conversion that takes file and line from the innermost caller's frame.
JsException_from_last_frame(error) ==
    LET n == Len(error.frames) IN
    JsException(IF error.message.some THEN error.message.s ELSE "Unknown JavaScript error.",
                0,
                IF n > 0 /\ error.frames[n].file_name.some
                    THEN error.frames[n].file_name.s ELSE "unknown",
                IF n > 0 /\ error.frames[n].line_number.some
                    THEN error.frames[n].line_number.n ELSE 0,
                [i \in 1..n |->
                    (IF error.frames[i].file_name.some
                        THEN error.frames[i].file_name.s ELSE "unknown")
                    \o ":" \o
                    LongToString(IF error.frames[i].line_number.some
                                    THEN error.frames[i].line_number.n ELSE 0)])

\* impl From<deno_core::error::JsError> for JsException
JsException_from(error) ==
    LET unwrap_or_unknown(file_name) == IF file_name.some THEN file_name.s ELSE "unknown"
        unwrap_or_0(line_number) == IF line_number.some THEN line_number.n ELSE 0
        source == IF Len(error.frames) > 0
                  THEN << unwrap_or_unknown(error.frames[1].file_name),
                          unwrap_or_0(error.frames[1].line_number) >>
                  ELSE << "unknown", 0 >>
        stack == [i \in 1..Len(error.frames) |->
                     unwrap_or_unknown(error.frames[i].file_name)
                     \o ":" \o LongToString(unwrap_or_0(error.frames[i].line_number))]
    IN  JsException(IF error.message.some THEN error.message.s
                    ELSE "Unknown JavaScript error.",
                    0, source[1], source[2], stack)

\* The JS errors applied: with or without a message, with up to MaxFrames
\* frames, each with or without a file name and a line number.
MaxFrames == 2
JsFrames ==
    {JsFrame(f, l) : f \in {NoString, SomeString("a.js"), SomeString("ext:b.js")},
                     l \in {NoLine, SomeLine(3), SomeLine(12)}}
RECURSIVE FramesUpTo(_)
FramesUpTo(n) ==
    IF n = 0 THEN {<< >>}
    ELSE FramesUpTo(n - 1)
         \cup {Append(fs, f) : fs \in {g \in FramesUpTo(n - 1) : Len(g) = n - 1},
                                f \in JsFrames}
JsErrors ==
    {JsError(m, fs) : m \in {NoString, SomeString(""), SomeString("Uncaught Error: boom")},
                      fs \in FramesUpTo(MaxFrames)}

\* JsException::from(error)
Apply_JsException_from(error) ==
    /\ applied = NoApplication
    /\ applied' = [fn |-> "JsException::from", arg |-> error,
                   out |-> JsException_from(error)]
    /\ UNCHANGED << extensions, v8object_class, try_call_errs, kind, will_snapshot,
                    has_snapshotted, module_loader, slot, op_decls, main_module,
                    evaluated, js_runs, log, last, crashed >>

FunctionNext ==
    \/ \E result \in JsValues : Apply_zval_from_jsvalue(result)
    \/ \E zval \in ZValues : Apply_js_value_from_zval(zval)
    \/ \E zval \in ZValues : Apply_round_trip(zval)
    \/ \E loader \in ShimLoaders, sp \in Specifiers, ref \in Referrers, is_main \in BOOLEAN :
            Apply_ModuleLoader_resolve(loader, sp, ref, is_main)
    \/ \E loader \in ShimLoaders, module_specifier \in ModuleSpecifiers :
            Apply_ModuleLoader_load(loader, module_specifier)
    \/ \E error \in JsErrors : Apply_JsException_from(error)

FunctionSpec == FunctionInit /\ [][FunctionNext]_vars

(***************************************************************************)
(* The claims.                                                             *)
(***************************************************************************)
Dispatches == { log[i] : i \in 1..Len(log) }

\* C1: on a JsRuntime built with will_snapshot = true the first snapshot()
\* returns Ok and sets has_snapshotted, and every execute_script called while
\* has_snapshotted holds returns the Snapshotted error without reaching the
\* isolate: it runs no source and dispatches no op.
C1_SnapshotRefusesScripts ==
    /\ (kind = "JsRuntime" /\ last.call = "snapshot" /\ will_snapshot /\ ~last.snap)
          => (last.status = "ok" /\ has_snapshotted)
    /\ (kind = "JsRuntime" /\ last.call = "execute_script" /\ last.snap)
          => /\ last.status = "err" /\ last.err = "Snapshotted"
             /\ ~last.entered /\ last.ran = 0 /\ log = << >>

C1_Witness ==
    /\ kind = "JsRuntime" /\ will_snapshot /\ has_snapshotted
    /\ last.call = "execute_script" /\ last.snap /\ last.err = "Snapshotted"

\* C2: after a successful snapshot(), load_main_module, mod_evaluate and
\* run_event_loop are rejected too: called while has_snapshotted holds they
\* return an error without reaching the embedded runtime.
C2_ModuleOpsRefusedAfterSnapshot ==
    (kind = "JsRuntime" /\ last.snap
        /\ last.call \in {"load_main_module", "mod_evaluate", "run_event_loop"})
    => (last.status = "err" /\ ~last.entered)

\* C3: on a JsRuntime built with will_snapshot = false every snapshot() returns
\* the NoSnapshotFlag error with no snapshot, has_snapshotted stays false, and
\* so execute_script is never refused as Snapshotted.
C3_NoFlagNoSnapshot ==
    (kind = "JsRuntime" /\ ~will_snapshot)
    => /\ ~has_snapshotted
       /\ last.call = "snapshot"
             => /\ last.status = "err" /\ last.err = "NoSnapshotFlag"
                /\ last.value = "" /\ ~last.entered
       /\ last.call = "execute_script" => last.err # "Snapshotted"

C3_Witness ==
    /\ kind = "JsRuntime" /\ ~will_snapshot
    /\ last.call = "snapshot" /\ last.err = "NoSnapshotFlag"

\* C4: every op dispatch, the ones made by the extensions' js_files during
\* construction included, finds the callbacks slot installed on the isolate.
C4_SlotInstalledBeforeAnyOp == \A e \in Dispatches : e.slot

\* C5: once a runtime (JsRuntime or MainWorker) is constructed, the isolate's
\* callbacks slot holds an entry for every op name its extensions declared.
C5_DeclaredOpsHaveEntries ==
    kind # "none" => \A n \in op_decls : slot.present /\ n \in DOMAIN slot.callbacks

\* C6: a dispatch of an op name the registry has no entry for ends as a JS
\* exception: it does not return normally and calls no PHP callable.
C6_MissingEntryIsJsException ==
    \A e \in Dispatches : ~e.entry => (e.outcome = "js_exception" /\ e.invoked = 0)

\* C7: when the PHP callable of a dispatch throws, the dispatch ends as a JS
\* exception and the process goes on.
C7_RaiseBecomesJsException ==
    \A e \in Dispatches : e.raised => (e.outcome = "js_exception" /\ ~crashed)

\* C8: a dispatch made while an outer dispatch of the same runtime is still on
\* the stack (and so holds the callbacks map) completes normally.
C8_NestedDispatchCompletes ==
    \A e \in Dispatches : (e.depth > 0 /\ e.borrowed) => e.outcome = "returned"

\* C9: every dispatch of a registered op calls the PHP callable exactly once,
\* with the JS arguments converted by zval_from_jsvalue in call order, and
\* returns to JS the callable's result converted by js_value_from_zval; add
\* called with (2, 3) returns the JS number 5.
C9_DispatchMarshalsArgsAndResult ==
    \A e \in Dispatches :
        e.entry =>
            /\ e.invoked = 1
            /\ e.php_args = [j \in 1..Len(e.args) |->
                               zval_from_jsvalue(e.args[j], v8object_class)]
            /\ e.outcome = "returned" => e.rv = js_value_from_zval(e.ret)
            /\ (slot.callbacks[e.op] = "php_add"
                  /\ e.args = << JsNumber(2, FALSE), JsNumber(3, FALSE) >>)
                  => e.rv = JsNumber(5, FALSE)

\* C10: the op identity(x) -> x dispatched with the JS object {"k": [1, 2]}, in a
\* PHP program that defines the class V8Object, returns a JS object with an own
\* property k whose value is the array [1, 2].
C10_IdentityKeepsKeyedValue ==
    \A e \in Dispatches :
        (e.entry /\ v8object_class /\ slot.callbacks[e.op] = "php_identity"
            /\ e.args = << JsK12 >>)
        => /\ e.outcome = "returned"
           /\ e.rv.t = "object"
           /\ \E p \in 1..Len(e.rv.props) :
                 /\ e.rv.props[p].key = "k"
                 /\ e.rv.props[p].val = JsArray(<< JsNumber(1, FALSE), JsNumber(2, FALSE) >>)

\* C11: each of the PHP scalars null, true, false, 0, 1, -1, 2.5, "" and
\* "héllo", converted to a JS value by js_value_from_zval and back by
\* zval_from_jsvalue, comes back equal and of the same PHP type.
C11_ScalarRoundTrip ==
    (applied.fn = "round_trip" /\ applied.arg \in ZScalars)
        => (applied.out = applied.arg /\ applied.out.t = applied.arg.t)

C11_Witness ==
    /\ applied.fn = "round_trip" /\ applied.arg = ZDouble(2, TRUE)
    /\ applied.js = JsNumber(2, TRUE) /\ applied.out = ZDouble(2, TRUE)

\* C12: no application of zval_from_jsvalue or js_value_from_zval, an input
\* that contains itself included, recurses until the stack is exhausted:
\* each ends with a value or an error.
C12_ConversionsTolerateCycles ==
    applied.fn \in {"zval_from_jsvalue", "js_value_from_zval"}
        => applied.out # ZOverflow

\* C13: ModuleLoader::resolve calls the PHP loader's resolve with (specifier,
\* referrer, is_main); when the call gives no result or a result that is not
\* a string it fails saying resolve did not return a valid string; when the
\* string does not parse as a URL it fails; and it returns a URL only for a
\* string result that parses, the URL being the parse of that string.
C13_ResolveChecksItsResult ==
    applied.fn = "ModuleLoader::resolve" =>
        /\ applied.php = applied.arg
        /\ (~applied.res.ok \/ applied.res.val.t # "string")
              => (~applied.out.ok
                    /\ applied.out.err = "resolve() did not return a valid string.")
        /\ (applied.res.ok /\ applied.res.val.t = "string"
                /\ ~UrlParse(applied.res.val.s).ok) => ~applied.out.ok
        /\ applied.out.ok
              => /\ applied.res.ok /\ applied.res.val.t = "string"
                 /\ UrlParse(applied.res.val.s).ok
                 /\ applied.out.url = UrlParse(applied.res.val.s).url

\* C14: the future ModuleLoader::load returns is always completed: failed,
\* with an error that mentions load, when the PHP load call fails or returns
\* something that is not a ModuleSource, and successful, carrying that
\* ModuleSource's code and URLs, otherwise.
C14_LoadReturnsCompletedFuture ==
    applied.fn = "ModuleLoader::load" =>
        /\ applied.out.ready
        /\ applied.out.ok <=> (applied.res.ok /\ applied.res.val.t = "ModuleSource")
        /\ ~applied.out.ok
              => applied.out.err \in {"Error calling load() function on ModuleLoader",
                                      "Error converting return value of load() to ModuleSource"}
        /\ applied.out.ok
              => /\ applied.out.source.code = applied.res.val.code
                 /\ applied.out.source.module_url_found = applied.res.val.module_url_found

C14_Witness ==
    /\ applied.fn = "ModuleLoader::load" /\ applied.loader = "load_null"
    /\ applied.out.ready /\ ~applied.out.ok

C16_BadSpecifierChangesNothing ==
    [][(last'.call = "load_main_module" /\ last'.arg = "foo")
          => /\ last'.status = "err" /\ last'.err = "BadSpecifier"
             /\ ~last'.entered /\ last'.loader_calls = << >>
             /\ UNCHANGED << main_module, evaluated, kind, will_snapshot,
                             has_snapshotted, module_loader, slot, op_decls,
                             js_runs, crashed >>]_vars

C16_Witness ==
    /\ kind = "JsRuntime" /\ module_loader # NoLoader
    /\ last.call = "load_main_module" /\ last.arg = "foo" /\ last.err = "BadSpecifier"

\* C17: once a runtime is constructed no step changes the isolate's callbacks
\* slot or its declared ops, a step that adds, removes or replaces the ops or
\* js_files of the PHP program's Extension objects included; later dispatches
\* find the entries made at construction.
C17_ExtensionsCopiedAtConstruction ==
    [][kind # "none" => (slot' = slot /\ op_decls' = op_decls)]_vars

\* The Extension objects were changed after construction and a later script
\* still reached the callable of an op they no longer declare.
C17_Witness ==
    /\ kind = "JsRuntime" /\ extensions = MutatedExtensions
    /\ last.call = "execute_script" /\ last.status = "ok"
    /\ \E e \in Dispatches :
          /\ e.op \notin OpDecls(extensions)
          /\ e.invoked = 1 /\ e.outcome = "returned"

\* C18: the JsException made from a JS error with frames f1..fn has a trace of
\* n strings, the i-th being the i-th frame's file name, ":" and its line
\* number in decimal, "unknown" standing for a missing file name and 0 for a
\* missing line number; its file and line are those of the first frame with
\* the same defaults, "unknown" and 0 when there is no frame; its code is 0;
\* its message is the error's, "Unknown JavaScript error." when it has none.
C18_JsExceptionFromJsError ==
    applied.fn = "JsException::from" =>
        LET frames == applied.arg.frames
            File(i) == IF frames[i].file_name = NoString THEN "unknown"
                       ELSE frames[i].file_name.s
            Line(i) == IF frames[i].line_number = NoLine THEN 0
                       ELSE frames[i].line_number.n
            Decimal(k) == CASE k = 0 -> "0" [] k = 3 -> "3" [] k = 12 -> "12"
                            [] OTHER -> "?"
        IN  /\ Len(applied.out.trace) = Len(frames)
            /\ \A i \in 1..Len(frames) :
                    applied.out.trace[i] = File(i) \o ":" \o Decimal(Line(i))
            /\ frames # << >> =>
                    applied.out.file = File(1) /\ applied.out.line = Line(1)
            /\ frames = << >> =>
                    applied.out.file = "unknown" /\ applied.out.line = 0
            /\ applied.out.code = 0
            /\ applied.out.message =
                    IF applied.arg.message = NoString THEN "Unknown JavaScript error."
                    ELSE applied.arg.message.s

\* A JS error without a message and with two frames, the first without a
\* line number and the second without a file name, was converted.
C18_Witness ==
    /\ applied.fn = "JsException::from"
    /\ applied.arg.message = NoString
    /\ Len(applied.arg.frames) = 2
    /\ applied.arg.frames[1] = JsFrame(SomeString("a.js"), NoLine)
    /\ applied.arg.frames[2] = JsFrame(NoString, SomeLine(12))
    /\ applied.out.trace = << "a.js:0", "unknown:12" >>
    /\ applied.out.file = "a.js" /\ applied.out.line = 0

\* C19: the callbacks map JsRuntime::__construct installs has exactly the op
\* names declared by any of the configured extensions as keys, and maps each
\* name to the callable of the last extension in the array that declares it.
C19_RegistryIsOrderedUnion ==
    (last.call = "JsRuntime::__construct" /\ last.status = "ok") =>
        /\ slot.present
        /\ DOMAIN slot.callbacks = UNION { DOMAIN extensions[i].ops : i \in 1..Len(extensions) }
        /\ \A n \in DOMAIN slot.callbacks :
              \E i \in 1..Len(extensions) :
                  /\ n \in DOMAIN extensions[i].ops
                  /\ \A j \in (i + 1)..Len(extensions) : n \notin DOMAIN extensions[j].ops
                  /\ slot.callbacks[n] = extensions[i].ops[n]

\* Two extensions declare op add; the map holds the second one's callable.
C19_Witness ==
    /\ last.call = "JsRuntime::__construct" /\ last.status = "ok"
    /\ Len(extensions) = 2
    /\ "add" \in DOMAIN extensions[1].ops /\ "add" \in DOMAIN extensions[2].ops
    /\ extensions[1].ops["add"] # extensions[2].ops["add"]
    /\ slot.callbacks["add"] = extensions[2].ops["add"]

\* C20: zval_from_jsvalue gives every JS value the result of the first rule that
\* matches it, in this order: a string becomes the PHP string; null and
\* undefined become null; a boolean becomes the boolean; a number that is a
\* 32-bit integer becomes the integer; any other number becomes the double;
\* an array becomes an array of the same length with keys 0, 1, ... and the
\* converted elements in order; a function becomes the string "Function";
\* any other object becomes an object of class V8Object with one property
\* per own property name holding the converted value; anything else becomes
\* a string.
C20_JsToHostPrecedence ==
    applied.fn = "zval_from_jsvalue" =>
        LET v == IF applied.arg.t = "ref" THEN JsHeap[applied.arg.id] ELSE applied.arg
            out == applied.out
            converted(x) == zval_from_jsvalue(x, v8object_class)
        IN  CASE v.t = "string" -> out = ZString(v.s)
              [] v.t \in {"null", "undefined"} -> out = ZNull
              [] v.t = "boolean" -> out = (IF v.b THEN ZTrue ELSE ZFalse)
              [] v.t = "number" ->
                    IF ~v.half /\ v.hi = 0 /\ v.n \in Int32Min..Int32Max
                    THEN out = ZLong(v.n)
                    ELSE out = ZDouble64(v.hi, v.n, v.half)
              [] v.t = "array" ->
                    /\ out.t = "array"
                    /\ Len(out.entries) = Len(v.elems)
                    /\ \A i \in 1..Len(v.elems) :
                          out.entries[i] = Entry(KeyLong(i - 1), converted(v.elems[i]))
              [] v.t = "function" -> out = ZString("Function")
              [] v.t = "object" ->
                    /\ out.t = "object" /\ out.class = "V8Object"
                    /\ Len(out.props) = Len(v.props)
                    /\ \A i \in 1..Len(v.props) :
                          out.props[i] = Prop(v.props[i].key, converted(v.props[i].val))
              [] OTHER -> out.t = "string"

\* C21: js_value_from_zval turns a PHP array whose keys are all integers into
\* a JS array holding the converted values in order; a PHP array with at
\* least one string key into a JS object with one own property per entry,
\* named by the string key or by the decimal form of the integer key and
\* holding the converted value; and a PHP object into JS null.
C21_KeyedSequenceToJs ==
    applied.fn = "js_value_from_zval" =>
        LET zval == applied.arg
            out == applied.out
            Decimal(i) == CASE i = 0 -> "0" [] i = 1 -> "1" [] i = 5 -> "5"
                            [] i = 9 -> "9" [] i = -1 -> "-1" [] OTHER -> "?"
        IN  /\ zval.t = "array" =>
                LET n == Len(zval.entries) IN
                IF \A i \in 1..n : zval.entries[i].key.k = "long"
                THEN /\ out.t = "array"
                     /\ Len(out.elems) = n
                     /\ \A i \in 1..n :
                            out.elems[i] = js_value_from_zval(zval.entries[i].val)
                ELSE /\ out.t = "object"
                     /\ Len(out.props) = n
                     /\ \A i \in 1..n :
                            /\ out.props[i].key =
                                    IF zval.entries[i].key.k = "string"
                                    THEN zval.entries[i].key.s
                                    ELSE Decimal(zval.entries[i].key.i)
                            /\ out.props[i].val = js_value_from_zval(zval.entries[i].val)
            /\ zval.t = "object" => out = JsNull

\* The array ["k" => [1, 2], 5 => "a"] became the JS object with property k
\* holding the array [1, 2] and property "5" holding "a".
C21_Witness ==
    /\ applied.fn = "js_value_from_zval"
    /\ applied.arg = ZArray(<< Entry(KeyString("k"),
                                     ZArray(<< Entry(KeyLong(0), ZLong(1)),
                                               Entry(KeyLong(1), ZLong(2)) >>)),
                               Entry(KeyLong(5), ZString("a")) >>)
    /\ applied.out.t = "object"
    /\ applied.out.props =
            << Prop("k", JsArray(<< JsNumber(1, FALSE), JsNumber(2, FALSE) >>)),
               Prop("5", JsString("a")) >>

\* C22: when the PHP load returns a ModuleSource, the module ModuleLoader::load
\* hands on has type Json exactly when the ModuleSource's module_type is the
\* string "json", and type JavaScript for every other string, "JSON", " json"
\* and "" included; its code, module_url_specified and module_url_found are
\* those of the ModuleSource.
C22_ModuleTypeJsonIffExactlyJson ==
    (applied.fn = "ModuleLoader::load" /\ applied.res.ok
        /\ applied.res.val.t = "ModuleSource")
    => /\ applied.out.ok
       /\ applied.out.source.module_type \in {"Json", "JavaScript"}
       /\ applied.out.source.module_type = "Json" <=> applied.res.val.module_type = "json"
       /\ applied.out.source.code = applied.res.val.code
       /\ applied.out.source.module_url_specified = applied.res.val.module_url_specified
       /\ applied.out.source.module_url_found = applied.res.val.module_url_found

\* A load that returned a ModuleSource of module_type "JSON" gave a JavaScript
\* module.
C22_Witness ==
    /\ applied.fn = "ModuleLoader::load" /\ applied.res.ok
    /\ applied.res.val.t = "ModuleSource" /\ applied.res.val.module_type = "JSON"
    /\ applied.out.ok /\ applied.out.source.module_type = "JavaScript"

\* C23: a JsRuntime is constructed with has_snapshotted false; has_snapshotted
\* changes only from false to true and only in a snapshot() that returns Ok;
\* no operation on a constructed runtime changes will_snapshot; and in every
\* state has_snapshotted implies will_snapshot.
C23_HasSnapshottedImpliesWillSnapshot ==
    /\ (has_snapshotted => will_snapshot)
    /\ [][/\ (kind = "none" /\ kind' = "JsRuntime") => ~has_snapshotted'
          /\ has_snapshotted' # has_snapshotted
                => /\ ~has_snapshotted /\ has_snapshotted'
                   /\ kind = "JsRuntime"
                   /\ last'.call = "snapshot" /\ last'.status = "ok"
          /\ kind = "JsRuntime" => will_snapshot' = will_snapshot
          /\ has_snapshotted' => will_snapshot']_vars

\* A runtime that took a snapshot was then asked for something else and is
\* still marked as snapshotted.
C23_Witness ==
    /\ kind = "JsRuntime" /\ will_snapshot /\ has_snapshotted
    /\ last.call \in {"execute_script", "load_main_module", "mod_evaluate",
                       "run_event_loop"}

\* C24: converting a PHP integer x to JS and back gives the PHP integer x when
\* -2^31 <= x <= 2^31 - 1 and a PHP double, not an integer, for every other
\* x; on the way both x and a PHP double are a JS number.
C24_IntegerSurvivesOnlyInInt32 ==
    (applied.fn = "round_trip" /\ applied.arg.t \in {"long", "double"}) =>
        /\ applied.js.t = "number"
        /\ applied.arg.t = "long" =>
              IF applied.arg.hi = 0
              THEN applied.out = applied.arg
              ELSE applied.out.t = "double"

\* The PHP integer 2^31 went to JS and came back as the PHP double 2^31.
C24_Witness ==
    /\ applied.fn = "round_trip"
    /\ applied.arg = ZLong64(1, Int32Min)
    /\ applied.js = JsNumber64(1, Int32Min, FALSE)
    /\ applied.out = ZDouble64(1, Int32Min, FALSE)

\* C25: for a PHP array whose keys are all integers, js_value_from_zval returns
\* a JS array with as many elements as the PHP array has entries, the i-th
\* being the conversion of the i-th entry's value in iteration order; the
\* keys play no part, so the result is that of the same values keyed
\* 0, 1, ...
C25_IntegerKeysDiscarded ==
    (applied.fn = "js_value_from_zval" /\ applied.arg.t = "array"
        /\ \A i \in 1..Len(applied.arg.entries) : applied.arg.entries[i].key.k = "long")
    => LET entries == applied.arg.entries
           rekeyed == ZArray([i \in 1..Len(entries) |->
                                Entry(KeyLong(i - 1), entries[i].val)])
       IN  /\ applied.out.t = "array"
           /\ Len(applied.out.elems) = Len(entries)
           /\ \A i \in 1..Len(entries) :
                 applied.out.elems[i] = js_value_from_zval(entries[i].val)
           /\ applied.out = js_value_from_zval(rekeyed)

\* The array [5 => "a", 9 => 1] became the JS array ["a", 1].
C25_Witness ==
    /\ applied.fn = "js_value_from_zval"
    /\ applied.arg = ZArray(<< Entry(KeyLong(5), ZString("a")),
                               Entry(KeyLong(9), ZLong(1)) >>)
    /\ applied.out = JsArray(<< JsString("a"), JsNumber(1, FALSE) >>)

====
